---- MODULE Spec2Model ----
(***************************************************************************)
(* Rate-limiting core of fastex: the in-memory sliding-window backend      *)
(* (fastex/limiter/backend/memory/memory.py), the composite backend with   *)
(* its circuit breaker (fastex/limiter/backend/composite/composite.py) and *)
(* the Redis backend with its two Lua scripts                              *)
(* (fastex/limiter/backend/redis/redis.py, redis/scripts/scripts.py).      *)
(* The Redis server is modelled by the commands the scripts call: a key    *)
(* lives while the clock is not past its expiry time, so PTTL is 0 in a    *)
(* key's last millisecond, and an evalsha that raises has changed nothing. *)
(*                                                                         *)
(* Both backends run on one asyncio event loop.  A coroutine gives up the  *)
(* loop only at an await that really suspends, so an action of this model  *)
(* is the code that runs between two such suspension points.               *)
(* asyncio.Lock.acquire() returns without suspending when the lock is      *)
(* free, and no coroutine of the in-memory backend suspends while it holds *)
(* a lock, so InMemoryLimiterBackend.check_limit runs as one step.         *)
(* CompositeLimiterBackend.check_limit suspends at each delegated          *)
(* check_limit call and is modelled in phases.                             *)
(*                                                                         *)
(* Time is an integer clock `now`, the value of time.time().  For the      *)
(* in-memory backend, which keeps time.time() * 1000 as a float, one tick  *)
(* is 1/TicksPerMs of a millisecond; for the Redis backend, which sends   *)
(* int(time.time() * 1000), one tick is a millisecond; for the composite  *)
(* one tick is a second.  None is modelled as 0 and the clock starts at 1. *)
(* _last_success_time, which _record_success writes and only get_stats     *)
(* reads, and the contents of the _locks dictionary are left out; the      *)
(* locks held at each write to the store are recorded with the result of   *)
(* the operation.  The composite's health-check tasks are followed one by  *)
(* one, including those a repeated connect() leaves without a reference.   *)
(***************************************************************************)
EXTENDS Integers, Sequences, FiniteSets, TLC

\* ------------------------------------------------------------------ bounds
NumKeys == 2
MaxTime == 4
MaxTimes == 2
MaxWindow == 2
MaxKeysCap == 2
MaxSeqLen == 3
MaxThreshold == 2
MaxRecovery == 2
MaxCount == 2
MaxChecks == 3
NumRedisKeys == 1
MaxOrphans == 1
MaxConcCount == 3

\* -------------------------------------------------------- program constants
\* cleanup_window_ms = 24 * 60 * 60 * 1000, in model clock ticks
CleanupWindowMs == 2
\* limiter_settings.DENY_FALLBACK_RETRY_AFTER_MS
DenyRetryAfterMs == 60000
\* resolution of the float time.time() * 1000: clock ticks in a millisecond
TicksPerMs == 2

Keys == 1..NumKeys
Policies == [times : 1..MaxTimes, window : 1..MaxWindow]
FallbackModes == {"allow", "deny", "raise"}
NoMode == "unset"

Min2(a, b) == IF a <= b THEN a ELSE b
Max2(a, b) == IF a >= b THEN a ELSE b

RECURSIVE SeqMin(_)
SeqMin(s) ==
  IF Len(s) = 1 THEN s[1] ELSE Min2(s[1], SeqMin(Tail(s)))

VARIABLES
  now,             \* time.time()
  \* ---- InMemoryLimiterBackend
  store,           \* _store: key -> list of timestamps
  mem_connected,   \* _connected
  max_keys,        \* _max_keys
  fallback_mode,   \* _fallback_mode
  cleanup_task,    \* _cleanup_task: "none", "alive" or "done"
  disc_pc,         \* position of an in-flight disconnect(): "idle" / "await"
  mres,            \* what the in-memory operation just completed returned
  seqInfo,         \* history: the run of checks made on each stored key
  held             \* the locks held by tasks that are suspended at an await

mvars == <<store, mem_connected, max_keys, fallback_mode,
           cleanup_task, disc_pc, mres, seqInfo, held>>

VARIABLES
  \* ---- CompositeLimiterBackend
  strategy,           \* _strategy
  failure_threshold,  \* _failure_threshold
  recovery_timeout,   \* _recovery_timeout
  circuit_state,      \* _circuit_state
  failure_count,      \* _failure_count
  last_failure_time,  \* _last_failure_time (0 = None)
  primary_healthy,    \* _primary_healthy
  fallback_healthy,   \* _fallback_healthy
  primary_requests,   \* _primary_requests
  fallback_requests,  \* _fallback_requests
  primary_errors,     \* _primary_errors
  fallback_errors,    \* _fallback_errors
  comp_connected,     \* _connected
  backend_connected,  \* is_connected() of the primary and of the fallback
  call,               \* position of the check_limit() call in flight
  call2,              \* position of a second check_limit() call, made by
                      \* another task while the first is in flight
  cres,               \* what the check_limit / current_backend just completed
                      \* returned
  consec,             \* history: failed checks routed to the primary since
                      \* the last successful one or forced reset
  forced,             \* history: force_switch_to_fallback() was called and
                      \* force_switch_to_primary() has not been called since
  health_task,        \* _health_check_task: "none", "alive" or "done"
  health_orphans      \* health-check tasks still running that
                      \* _health_check_task no longer refers to

cvars == <<strategy, failure_threshold, recovery_timeout, circuit_state,
           failure_count, last_failure_time,
           primary_healthy, fallback_healthy, primary_requests,
           fallback_requests, primary_errors, fallback_errors,
           comp_connected, backend_connected, call, call2, cres, consec,
           forced, health_task, health_orphans>>

VARIABLES
  \* ---- RedisLimiterBackend and the Redis server it talks to
  redis_client,     \* _redis: "unset" (never assigned), "none" or "client"
  script_sha,       \* _script_sha: "unset", "none" or the script it names
  lua_script,       \* _lua_script: "unset" or the LuaScript object
  r_fallback_mode,  \* _fallback_mode
  rdb,              \* the server's keyspace: key -> value with its expiry
  rcall,            \* the evalsha request in flight
  rres,             \* what the Redis backend operation just completed returned
  rcount,           \* history: number of check_limit calls made so far
  rrun              \* history: the run of script replies on each live key

rvars == <<redis_client, script_sha, lua_script, r_fallback_mode, rdb, rcall,
           rres, rcount, rrun>>

\* ------------------------------------------------------------ pure helpers

\* memory.py:124  len(self._store) >= self._max_keys and key not in self._store
MemoryProtectionTripsAnyKey(st, cap, key) ==
  Cardinality(DOMAIN st) >= cap
MemoryProtectionTrips(st, cap, key) ==
  Cardinality(DOMAIN st) >= cap /\ key \notin DOMAIN st

\* memory.py:137 self._store[key] on a defaultdict(list)
StoredTimestamps(st, key) ==
  IF key \in DOMAIN st THEN st[key] ELSE <<>>

\* memory.py:138  [ts for ts in timestamps if ts > window_start_ms]
ValidTimestampsKeepAll(timestamps, window_start_ms) == timestamps
ValidTimestampsInclusive(timestamps, window_start_ms) ==
  SelectSeq(timestamps, LAMBDA ts : ts >= window_start_ms)
ValidTimestamps(timestamps, window_start_ms) ==
  SelectSeq(timestamps, LAMBDA ts : ts > window_start_ms)

\* memory.py:143  current_count >= config.times
LimitReachedOffByOne(current_count, times) == current_count > times
LimitReached(current_count, times) == current_count >= times

\* memory.py:167  self._store[key].append(now_ms)
AppendRequestDropped(valid_timestamps, now_ms) == valid_timestamps
AppendRequest(valid_timestamps, now_ms) == Append(valid_timestamps, now_ms)

\* config.total_milliseconds on the scale of the float clock
TotalMilliseconds(config) == config.window * TicksPerMs

\* int(x) of a float number of milliseconds: truncation towards zero
IntOfMs(x) ==
  IF x >= 0 THEN x \div TicksPerMs ELSE 0 - ((0 - x) \div TicksPerMs)

\* memory.py:145-148,160  retry_after_ms, clamped at 0
RetryAfterMs(valid_timestamps, window_ms, now_ms) ==
  LET oldest_timestamp ==
        IF valid_timestamps # <<>> THEN SeqMin(valid_timestamps) ELSE now_ms
  IN Max2(IntOfMs(oldest_timestamp + window_ms - now_ms), 0)

SetKeyShared(st, key, val) == [x \in DOMAIN st \cup {key} |-> val]
SetKey(st, key, val) ==
  [x \in DOMAIN st \cup {key} |-> IF x = key THEN val ELSE st[x]]
DropKeys(st, ks) == [x \in DOMAIN st \ ks |-> st[x]]

NoResult == [op |-> "none"]

\* the locks of the in-memory backend: _global_lock and _locks[key]
GlobalLock == <<"global", 0>>
KeyLock(key) == <<"key", key>>

\* one write to _store: the key written and the locks held while writing
Mutation(key, locks) == [key |-> key, locks |-> locks]

\* memory.py:135  async with self._locks[key]
CheckLocksNone(key) == {}
CheckLocks(key) == {KeyLock(key)}

\* memory.py:224-240  async with self._global_lock, then self._locks[key]
SweepPruneLocks(key) == {GlobalLock, KeyLock(key)}

\* memory.py:224,244-245  the key lock was released at line 241
SweepDeleteLocks == {GlobalLock}

\* memory.py:279-281  async with self._locks[key]
ClearKeyLocks(key) == {KeyLock(key)}

\* memory.py:98-99, 289-290  async with self._global_lock
ClearAllLocks == {GlobalLock}
ClearAllMutations(st) == {Mutation(k, ClearAllLocks) : k \in DOMAIN st}

\* memory.py:90-98  the locks disconnect() holds while it awaits the
\* cancelled sweep task: _global_lock is taken after the await
DisconnectAwaitLocksGlobal == {GlobalLock}
DisconnectAwaitLocks == {}

\* asyncio.Lock.acquire: the locks are taken without suspending when no
\* suspended task holds one of them
FreeNever(locks, held_locks) == FALSE
Free(locks, held_locks) == locks \cap held_locks = {}

\* base.py:18-40  _handle_fallback
HandleFallbackAllows(mode, config) ==
  IF mode \in {"allow", "deny"}
  THEN [outcome |-> "allowed", retry_after_ms |-> 0, remaining |-> 0 - 1]
  ELSE [outcome |-> "error", retry_after_ms |-> 0, remaining |-> 0 - 1]
HandleFallback(mode, config) ==
  CASE mode = "allow" ->
         [outcome |-> "allowed", retry_after_ms |-> 0, remaining |-> -1]
    [] mode = "deny" ->
         [outcome |-> "exceeded", retry_after_ms |-> DenyRetryAfterMs, remaining |-> -1]
    [] OTHER ->
         [outcome |-> "error", retry_after_ms |-> 0, remaining |-> -1]

\* memory.py:168  remaining_requests = config.times - current_count - 1
RemainingRequestsBeforeAppend(times, current_count) == times - current_count
RemainingRequests(times, current_count) == times - current_count - 1

\* memory.py:138-139  the timestamps a check drops from the key's list
Discarded(timestamps, valid_timestamps) ==
  {timestamps[i] : i \in 1..Len(timestamps)}
    \ {valid_timestamps[i] : i \in 1..Len(valid_timestamps)}

\* memory.py:131-179  the sliding-window evaluation under the per-key lock
SlidingWindowCheck(timestamps, config, now_ms) ==
  LET window_start_ms == now_ms - TotalMilliseconds(config)
      valid_timestamps == ValidTimestamps(timestamps, window_start_ms)
      current_count == Len(valid_timestamps)
  IN IF LimitReached(current_count, config.times)
     THEN [stored |-> valid_timestamps,
           result |-> [outcome |-> "exceeded",
                       retry_after_ms |->
                         RetryAfterMs(valid_timestamps,
                                      TotalMilliseconds(config), now_ms),
                       remaining |-> 0]]
     ELSE [stored |-> AppendRequest(valid_timestamps, now_ms),
           result |-> [outcome |-> "allowed",
                       retry_after_ms |-> 0,
                       remaining |->
                         RemainingRequests(config.times, current_count)]]

\* History of the checks made on `key` since it entered the store.  The run
\* is `pure` while every check used the same policy, fell less than one
\* window after the first one, and nothing but checks touched the key;
\* n counts the checks of a pure run and ok those that were allowed.
ImpureRun == [pure |-> FALSE]
\* a run that was exhausted and whose key was checked again, with the same
\* policy, more than one window after the first check
RecoveredRun == [pure |-> FALSE, recovered |-> TRUE, outcome |-> "allowed"]
NextSeqInfo(info, key, config, outcome, now_ms) ==
  IF key \notin DOMAIN info
  THEN SetKey(info, key,
         [pure |-> TRUE, first |-> now_ms, n |-> 1,
          ok |-> IF outcome = "allowed" THEN 1 ELSE 0, config |-> config])
  ELSE IF /\ info[key].pure
          /\ info[key].config = config
          /\ now_ms - info[key].first < TotalMilliseconds(config)
  THEN SetKey(info, key,
         [info[key] EXCEPT
            !.n = @ + 1,
            !.ok = @ + (IF outcome = "allowed" THEN 1 ELSE 0)])
  ELSE IF /\ info[key].pure
          /\ info[key].config = config
          /\ info[key].n > info[key].ok
          /\ now_ms - info[key].first > TotalMilliseconds(config)
  THEN SetKey(info, key, [RecoveredRun EXCEPT !.outcome = outcome])
  ELSE SetKey(info, key, ImpureRun)

\* ------------------------------------------------- InMemoryLimiterBackend

MemInit ==
  /\ store = <<>>
  /\ mem_connected = FALSE
  /\ max_keys \in 1..MaxKeysCap
  /\ fallback_mode = NoMode
  /\ cleanup_task = "none"
  /\ disc_pc = "idle"
  /\ mres = NoResult
  /\ seqInfo = <<>>
  /\ held = {}

\* connect(config): cfg_max_keys = 0 stands for config.max_keys = None
MemConnect(cfg_max_keys, mode) ==
  /\ max_keys' = IF cfg_max_keys # 0 THEN cfg_max_keys ELSE max_keys
  /\ fallback_mode' = mode
  /\ mem_connected' = TRUE
  /\ cleanup_task' = "alive"
  /\ mres' = [op |-> "connect"]
  /\ UNCHANGED <<store, disc_pc, seqInfo, now, held, cvars, rvars>>

\* disconnect() up to `await self._cleanup_task`; without a live task the
\* call does not suspend and clears the store in the same step
MemDisconnectBegin ==
  /\ disc_pc = "idle"
  /\ mem_connected' = FALSE
  /\ IF cleanup_task = "alive"
     THEN /\ cleanup_task' = "done"
          /\ disc_pc' = "await"
          /\ held' = held \cup DisconnectAwaitLocks
          /\ mres' = [op |-> "disconnect_begin"]
          /\ UNCHANGED <<store, seqInfo>>
     ELSE /\ Free(ClearAllLocks, held)
          /\ store' = <<>>
          /\ seqInfo' = <<>>
          /\ mres' = [op |-> "disconnect",
                      mutations |-> ClearAllMutations(store)]
          /\ UNCHANGED <<cleanup_task, disc_pc, held>>
  /\ UNCHANGED <<max_keys, fallback_mode, now, cvars, rvars>>

\* disconnect() after the cancelled sweep task has finished
MemDisconnectFinish ==
  /\ disc_pc = "await"
  /\ Free(ClearAllLocks, held \ DisconnectAwaitLocks)
  /\ disc_pc' = "idle"
  /\ held' = held \ DisconnectAwaitLocks
  /\ store' = <<>>
  /\ seqInfo' = <<>>
  /\ mres' = [op |-> "disconnect", mutations |-> ClearAllMutations(store)]
  /\ UNCHANGED <<mem_connected, max_keys, fallback_mode, cleanup_task, now,
                 cvars, rvars>>

\* check_limit(key, config)
MemCheck(key, config) ==
  /\ (key \in DOMAIN seqInfo /\ seqInfo[key].pure) => seqInfo[key].n < MaxSeqLen
  /\ IF ~mem_connected
     THEN /\ mres' = [op |-> "check", kind |-> "notconnected", key |-> key,
                      outcome |-> "error", retry_after_ms |-> 0, remaining |-> -1,
                      mutations |-> {}]
          /\ UNCHANGED <<store, seqInfo>>
     ELSE IF MemoryProtectionTrips(store, max_keys, key)
     THEN LET r == HandleFallback(fallback_mode, config)
          IN mres' = [op |-> "check", kind |-> "guard", key |-> key,
                      outcome |-> r.outcome,
                      retry_after_ms |-> r.retry_after_ms,
                      remaining |-> r.remaining, mutations |-> {}]
          /\ UNCHANGED <<store, seqInfo>>
     ELSE LET c == SlidingWindowCheck(StoredTimestamps(store, key), config, now)
          IN /\ Free(CheckLocks(key), held)
             /\ store' = SetKey(store, key, c.stored)
             /\ seqInfo' = NextSeqInfo(seqInfo, key, config,
                                       c.result.outcome, now)
             /\ mres' = [op |-> "check", kind |-> "window", key |-> key,
                         outcome |-> c.result.outcome,
                         retry_after_ms |-> c.result.retry_after_ms,
                         remaining |-> c.result.remaining,
                         mutations |-> {Mutation(key, CheckLocks(key))},
                         discarded |->
                           Discarded(StoredTimestamps(store, key),
                                     ValidTimestamps(
                                       StoredTimestamps(store, key),
                                       now - TotalMilliseconds(config)))]
  /\ UNCHANGED <<mem_connected, max_keys, fallback_mode, cleanup_task,
                 disc_pc, now, held, cvars, rvars>>

\* memory.py:233-235  timestamps kept by one sweep pass
SweepKeptNone(timestamps, now_ms) == <<>>
SweepKeptInclusive(timestamps, now_ms) ==
  SelectSeq(timestamps, LAMBDA ts : ts >= now_ms - CleanupWindowMs)
SweepKept(timestamps, now_ms) ==
  SelectSeq(timestamps, LAMBDA ts : ts > now_ms - CleanupWindowMs)

\* memory.py:207-216  the sweep task after one iteration of its loop: an
\* exception raised by the pass is logged and the loop goes on
TaskAfterSweep(task, failed) == task

\* one iteration of _background_cleanup after its sleep; failed tells
\* whether _cleanup_expired_entries raised, which it is taken to do before
\* its first write to the store
MemSweep(failed) ==
  /\ cleanup_task = "alive"
  /\ mem_connected
  /\ IF failed
     THEN /\ mres' = [op |-> "sweep", failed |-> TRUE, mutations |-> {}]
          /\ UNCHANGED <<store, seqInfo>>
     ELSE LET keys_to_remove ==
                {k \in DOMAIN store : SweepKept(store[k], now) = <<>>}
              kept == DOMAIN store \ keys_to_remove
          IN /\ \A k \in DOMAIN store : Free(SweepPruneLocks(k), held)
             /\ Free(SweepDeleteLocks, held)
             /\ store' = [k \in kept |-> SweepKept(store[k], now)]
             /\ seqInfo' = [k \in DOMAIN seqInfo \cap kept |->
                              IF SweepKept(store[k], now) = store[k]
                              THEN seqInfo[k] ELSE ImpureRun]
             /\ mres' = [op |-> "sweep", failed |-> FALSE,
                         mutations |->
                           {Mutation(k, SweepPruneLocks(k)) : k \in kept}
                           \cup {Mutation(k, SweepDeleteLocks) :
                                   k \in keys_to_remove}]
  /\ cleanup_task' = TaskAfterSweep(cleanup_task, failed)
  /\ UNCHANGED <<mem_connected, max_keys, fallback_mode,
                 disc_pc, now, held, cvars, rvars>>

\* clear_key(key)
MemClearKey(key) ==
  /\ Free(ClearKeyLocks(key), held)
  /\ IF key \in DOMAIN store
     THEN /\ store' = DropKeys(store, {key})
          /\ seqInfo' = DropKeys(seqInfo, {key})
          /\ mres' = [op |-> "clear_key", existed |-> TRUE,
                      mutations |-> {Mutation(key, ClearKeyLocks(key))}]
     ELSE /\ mres' = [op |-> "clear_key", existed |-> FALSE,
                      mutations |-> {}]
          /\ UNCHANGED <<store, seqInfo>>
  /\ UNCHANGED <<mem_connected, max_keys, fallback_mode, cleanup_task,
                 disc_pc, now, held, cvars, rvars>>

\* clear_all()
MemClearAll ==
  /\ Free(ClearAllLocks, held)
  /\ store' = <<>>
  /\ seqInfo' = <<>>
  /\ mres' = [op |-> "clear_all", mutations |-> ClearAllMutations(store)]
  /\ UNCHANGED <<mem_connected, max_keys, fallback_mode, cleanup_task,
                 disc_pc, now, held, cvars, rvars>>

\* the clock advances
Tick ==
  /\ now < MaxTime
  /\ now' = now + 1

MemTick ==
  /\ Tick
  /\ mres' = NoResult
  /\ UNCHANGED <<store, mem_connected, max_keys, fallback_mode, cleanup_task,
                 disc_pc, seqInfo, held, cvars, rvars>>

MemNext ==
  \/ \E c \in 0..MaxKeysCap, m \in FallbackModes : MemConnect(c, m)
  \/ MemDisconnectBegin
  \/ MemDisconnectFinish
  \/ \E k \in Keys, p \in Policies : MemCheck(k, p)
  \/ \E failed \in BOOLEAN : MemSweep(failed)
  \/ \E k \in Keys : MemClearKey(k)
  \/ MemClearAll
  \/ MemTick

\* ------------------------------------------------ CompositeLimiterBackend

Strategies == {"fail_fast", "circuit_breaker", "health_check"}
Backends == {"primary", "fallback"}
\* trial: the call was routed to the primary by a selection that found or
\* left the circuit HalfOpen, and the primary has not answered yet
Idle == [pc |-> "idle", backend |-> "none", trial |-> FALSE]

Other(backend) == IF backend = "primary" THEN "fallback" ELSE "primary"

\* composite.py:326-331  _is_backend_available
IsBackendAvailableAlways(conn, backend) == TRUE
IsBackendAvailable(conn, backend) == conn[backend]

\* composite.py:284-292  _select_fail_fast
SelectFailFast(conn) ==
  IF IsBackendAvailable(conn, "primary") THEN "primary"
  ELSE IF IsBackendAvailable(conn, "fallback") THEN "fallback"
  ELSE "primary"

\* composite.py:301-304  the recovery timeout has elapsed
RecoveryElapsedLate(lft, t, timeout) == lft # 0 /\ t - lft > timeout
RecoveryElapsed(lft, t, timeout) == lft # 0 /\ t - lft >= timeout

\* composite.py:294-314  _select_circuit_breaker: the backend and the new state
SelectCircuitBreaker(state, lft, t, timeout) ==
  CASE state = "closed" -> [backend |-> "primary", circuit_state |-> "closed"]
    [] state = "open" ->
         IF RecoveryElapsed(lft, t, timeout)
         THEN [backend |-> "primary", circuit_state |-> "half_open"]
         ELSE [backend |-> "fallback", circuit_state |-> "open"]
    [] OTHER -> [backend |-> "primary", circuit_state |-> "half_open"]

\* composite.py:316-324  _select_health_check
SelectHealthCheckConnectedOnly(ph, fh, conn) == SelectFailFast(conn)
SelectHealthCheck(ph, fh, conn) ==
  IF ph /\ IsBackendAvailable(conn, "primary") THEN "primary"
  ELSE IF fh /\ IsBackendAvailable(conn, "fallback") THEN "fallback"
  ELSE "primary"

\* composite.py:270-282  _select_backend
SelectBackend ==
  CASE strategy = "fail_fast" ->
         [backend |-> SelectFailFast(backend_connected),
          circuit_state |-> circuit_state]
    [] strategy = "circuit_breaker" ->
         SelectCircuitBreaker(circuit_state, last_failure_time, now,
                              recovery_timeout)
    [] OTHER ->
         [backend |-> SelectHealthCheck(primary_healthy, fallback_healthy,
                                        backend_connected),
          circuit_state |-> circuit_state]

\* composite.py:333-345  _record_success: new circuit state and counter
RecordSuccessKeepsHalfOpen(backend, state, count) ==
  IF backend = "primary" /\ state = "closed"
  THEN [circuit_state |-> "closed", failure_count |-> 0]
  ELSE [circuit_state |-> state, failure_count |-> count]
RecordSuccess(backend, state, count) ==
  IF backend = "primary" /\ state = "half_open"
  THEN [circuit_state |-> "closed", failure_count |-> 0]
  ELSE IF backend = "primary" /\ state = "closed"
  THEN [circuit_state |-> "closed", failure_count |-> 0]
  ELSE [circuit_state |-> state, failure_count |-> count]

\* composite.py:359  self._failure_count >= self._failure_threshold
ThresholdReachedLate(count, threshold) == count > threshold
ThresholdReached(count, threshold) == count >= threshold

RecordFailureCountsOnly(backend, strat, state, count, threshold) ==
  IF backend = "primary" /\ strat = "circuit_breaker"
  THEN [circuit_state |-> state, failure_count |-> count + 1]
  ELSE [circuit_state |-> state, failure_count |-> count]
\* composite.py:347-372  _record_failure: new circuit state and counter
RecordFailure(backend, strat, state, count, threshold) ==
  IF backend = "primary" /\ strat = "circuit_breaker"
  THEN IF state = "closed" /\ ThresholdReached(count + 1, threshold)
       THEN [circuit_state |-> "open", failure_count |-> count + 1]
       ELSE IF state = "half_open"
       THEN [circuit_state |-> "open", failure_count |-> count + 1]
       ELSE [circuit_state |-> state, failure_count |-> count + 1]
  ELSE [circuit_state |-> state, failure_count |-> count]

CompInit ==
  /\ strategy \in Strategies
  /\ failure_threshold \in 1..MaxThreshold
  /\ recovery_timeout \in 1..MaxRecovery
  /\ circuit_state = "closed"
  /\ failure_count = 0
  /\ last_failure_time = 0
  /\ primary_healthy = TRUE
  /\ fallback_healthy = TRUE
  /\ primary_requests = 0
  /\ fallback_requests = 0
  /\ primary_errors = 0
  /\ fallback_errors = 0
  /\ comp_connected = FALSE
  /\ backend_connected = [primary |-> FALSE, fallback |-> FALSE]
  /\ call = Idle
  /\ call2 = Idle
  /\ cres = NoResult
  /\ consec = 0
  /\ forced = FALSE
  /\ health_task = "none"
  /\ health_orphans = 0

tasks == <<health_task, health_orphans>>
calls == <<call, call2>>
counters == <<primary_requests, fallback_requests, primary_errors,
           fallback_errors>>
settings == <<strategy, failure_threshold, recovery_timeout>>
healthy == <<primary_healthy, fallback_healthy>>

\* composite.py:128-130  the fallback's connect() is called whatever the
\* primary's connect() did
FallbackConnectAttempted(primary_connected) == TRUE

\* composite.py:139  connect() raises
ConnectRaisesEither(primary_connected, fallback_connected) ==
  ~primary_connected \/ ~fallback_connected
ConnectRaises(primary_connected, fallback_connected) ==
  ~primary_connected /\ ~fallback_connected

\* composite.py:214-217, 228-231, 249-252  a statistics counter goes up
\* when it is the counter of the backend
BumpAlways(backend, counted) == 1
Bump(backend, counted) == IF backend = counted THEN 1 ELSE 0

\* connect(): p_ok / f_ok tell whether the backend's connect() succeeds
\* when it is called.  The calls of connect() and disconnect() on one
\* composite are taken not to overlap each other.
CompConnect(p_ok, f_ok) ==
  LET primary_connected == p_ok
      fallback_connected == FallbackConnectAttempted(p_ok) /\ f_ok
      raises == ConnectRaises(primary_connected, fallback_connected)
      starts == ~raises /\ strategy = "health_check"
  IN
  /\ (starts /\ health_task = "alive") => health_orphans < MaxOrphans
  /\ backend_connected' =
       [primary |-> primary_connected \/ backend_connected.primary,
        fallback |-> fallback_connected \/ backend_connected.fallback]
  /\ primary_healthy' = primary_connected
  /\ circuit_state' = IF primary_connected THEN circuit_state ELSE "open"
  /\ fallback_healthy' =
       IF FallbackConnectAttempted(p_ok) THEN fallback_connected
       ELSE fallback_healthy
  /\ comp_connected' = IF raises THEN comp_connected ELSE TRUE
  /\ health_task' = IF starts THEN "alive" ELSE health_task
  /\ health_orphans' = IF starts /\ health_task = "alive"
                       THEN health_orphans + 1 ELSE health_orphans
  /\ cres' = [op |-> "connect",
              attempted |-> {"primary"} \cup
                            (IF FallbackConnectAttempted(p_ok)
                             THEN {"fallback"} ELSE {}),
              primary_connected |-> primary_connected,
              fallback_connected |-> fallback_connected,
              raised |-> raises]
  /\ UNCHANGED <<forced, settings, failure_count, last_failure_time,
                 counters, calls, consec, now, mvars, rvars>>

\* composite.py:181-187  _safe_disconnect raises
SafeDisconnectPropagates(backend_raises) == backend_raises
SafeDisconnectRaises(backend_raises) == FALSE

\* disconnect(): p_raises / f_raises tell whether the backend's
\* disconnect() raised, in which case that backend stays as it was
CompDisconnect(p_raises, f_raises) ==
  /\ comp_connected' = FALSE
  /\ health_task' = IF health_task = "alive" THEN "done" ELSE health_task
  /\ backend_connected' =
       [primary |-> p_raises /\ backend_connected.primary,
        fallback |-> f_raises /\ backend_connected.fallback]
  /\ cres' = [op |-> "disconnect",
              attempted |-> {"primary", "fallback"},
              raised |-> SafeDisconnectRaises(p_raises)
                         \/ SafeDisconnectRaises(f_raises)]
  /\ UNCHANGED <<forced, settings, circuit_state, failure_count,
                 last_failure_time, healthy, counters, health_orphans, calls,
                 consec, now, mvars, rvars>>

\* composite.py:203-204  check_limit raises before it selects a backend
CheckRefusedNever(connected) == FALSE
CheckRefused(connected) == ~connected

\* check_limit() up to the await of the selected backend's check_limit, for
\* the call whose position is c now and c_next after the step
CheckBegin(c, c_next, max_count) ==
  /\ c.pc = "idle"
  /\ primary_requests + fallback_requests + primary_errors + fallback_errors
       < max_count
  /\ IF CheckRefused(comp_connected)
     THEN /\ cres' = [op |-> "check", outcome |-> "not_connected",
                      first |-> "none", served_by |-> "none"]
          /\ c_next = c
          /\ UNCHANGED circuit_state
     ELSE /\ circuit_state' = SelectBackend.circuit_state
          /\ c_next = [pc |-> "first", backend |-> SelectBackend.backend,
                       trial |-> SelectBackend.circuit_state = "half_open"]
          /\ cres' = NoResult
  /\ UNCHANGED <<tasks, forced, settings, failure_count, last_failure_time, healthy, counters, comp_connected, backend_connected, consec,
                 now, mvars, rvars>>

\* the selected backend's check_limit returned (ok) or raised (~ok)
FirstReturns(c, c_next, ok) ==
  /\ c.pc = "first"
  /\ LET backend == c.backend
         other_backend == Other(c.backend)
     IN IF ok
        THEN LET r == RecordSuccess(backend, circuit_state, failure_count)
             IN /\ circuit_state' = r.circuit_state
                /\ failure_count' = r.failure_count
                /\ primary_requests' =
                     primary_requests + Bump(backend, "primary")
                /\ fallback_requests' =
                     fallback_requests + Bump(backend, "fallback")
                /\ consec' = IF backend = "primary" THEN 0 ELSE consec
                /\ c_next = Idle
                /\ cres' = [op |-> "check", outcome |-> "result",
                            first |-> backend, served_by |-> backend]
                /\ UNCHANGED <<last_failure_time, primary_errors,
                               fallback_errors>>
        ELSE LET r == RecordFailure(backend, strategy, circuit_state,
                                    failure_count, failure_threshold)
             IN /\ last_failure_time' = now
                /\ circuit_state' = r.circuit_state
                /\ failure_count' = r.failure_count
                /\ primary_errors' =
                     primary_errors + Bump(backend, "primary")
                /\ fallback_errors' =
                     fallback_errors + Bump(backend, "fallback")
                /\ consec' = IF backend = "primary" THEN consec + 1 ELSE consec
                /\ IF IsBackendAvailable(backend_connected, other_backend)
                   THEN /\ c_next = [pc |-> "other", backend |-> backend,
                                     trial |-> FALSE]
                        /\ cres' = NoResult
                   ELSE /\ c_next = Idle
                        /\ cres' = [op |-> "check", outcome |-> "single_failed",
                                    first |-> backend, served_by |-> "none"]
                /\ UNCHANGED <<primary_requests, fallback_requests>>
  /\ UNCHANGED <<tasks, forced, settings, healthy, comp_connected, backend_connected, now, mvars, rvars>>

\* the other backend's check_limit returned (ok) or raised (~ok)
OtherReturns(c, c_next, ok) ==
  /\ c.pc = "other"
  /\ LET other_backend == Other(c.backend)
     IN IF ok
        THEN /\ primary_requests' =
                  primary_requests + Bump(other_backend, "primary")
             /\ fallback_requests' =
                  fallback_requests + Bump(other_backend, "fallback")
             /\ cres' = [op |-> "check", outcome |-> "result",
                         first |-> c.backend, served_by |-> other_backend]
        ELSE /\ cres' = [op |-> "check", outcome |-> "both_failed",
                         first |-> c.backend, served_by |-> "none"]
             /\ UNCHANGED <<primary_requests, fallback_requests>>
  /\ c_next = Idle
  /\ UNCHANGED <<tasks, forced, consec, settings, circuit_state, failure_count, last_failure_time, healthy, primary_errors, fallback_errors,
                 comp_connected, backend_connected, now, mvars, rvars>>

\* the three steps of a check_limit call while no other call is in flight
CompCheckBegin == CheckBegin(call, call', MaxCount) /\ UNCHANGED call2
CompFirstReturns(ok) == FirstReturns(call, call', ok) /\ UNCHANGED call2
CompOtherReturns(ok) == OtherReturns(call, call', ok) /\ UNCHANGED call2

\* the same steps of two check_limit calls made by different tasks: each
\* call is suspended at the await of a backend's check_limit
\* (composite.py:209, 242) and the other may run in between
ConcCheckBegin == CheckBegin(call, call', MaxConcCount) /\ UNCHANGED call2
CompCheckBegin2 == CheckBegin(call2, call2', MaxConcCount) /\ UNCHANGED call
CompFirstReturns2(ok) == FirstReturns(call2, call2', ok) /\ UNCHANGED call
CompOtherReturns2(ok) == OtherReturns(call2, call2', ok) /\ UNCHANGED call

\* composite.py:376-383  the health-check task after one iteration of its
\* loop: an exception is logged and the loop goes on
HealthTaskAfterPassDies(task, failed) == IF failed THEN "done" ELSE task
HealthTaskAfterPass(task, failed) == task

\* composite.py:388-394, 397-405  one probe: is_connected() of the backend,
\* or unhealthy when the probe raised
ProbeResult(conn, backend, raises) ==
  IF raises THEN FALSE ELSE conn[backend]

\* one iteration of _health_check_loop after its sleep, run by the task
\* _health_check_task refers to; p_raises / f_raises tell whether the
\* backend's is_connected() raised
CompHealthCheck(p_raises, f_raises) ==
  /\ health_task = "alive"
  /\ primary_healthy' = ProbeResult(backend_connected, "primary", p_raises)
  /\ fallback_healthy' = ProbeResult(backend_connected, "fallback", f_raises)
  /\ health_task' = HealthTaskAfterPass(health_task, p_raises \/ f_raises)
  /\ cres' = NoResult
  /\ UNCHANGED <<forced, settings, circuit_state, failure_count,
                 last_failure_time, counters, comp_connected,
                 backend_connected, health_orphans, calls, consec, now, mvars,
                 rvars>>

\* the same iteration run by a task started by an earlier connect(), which
\* disconnect() did not cancel: it wakes from its sleep, probes both
\* backends and leaves its loop once _connected is False
CompOrphanHealthCheck(p_raises, f_raises) ==
  /\ health_orphans > 0
  /\ primary_healthy' = ProbeResult(backend_connected, "primary", p_raises)
  /\ fallback_healthy' = ProbeResult(backend_connected, "fallback", f_raises)
  /\ health_orphans' = IF comp_connected THEN health_orphans
                       ELSE health_orphans - 1
  /\ cres' = NoResult
  /\ UNCHANGED <<forced, settings, circuit_state, failure_count,
                 last_failure_time, counters, comp_connected,
                 backend_connected, health_task, calls, consec, now, mvars,
                 rvars>>

\* force_switch_to_primary()
CompForcePrimaryKeepsCount ==
  /\ IF strategy = "circuit_breaker"
     THEN /\ circuit_state' = "closed"
          /\ consec' = 0
          /\ forced' = FALSE
          /\ UNCHANGED failure_count
     ELSE UNCHANGED <<circuit_state, failure_count, consec, forced>>
  /\ cres' = NoResult
  /\ UNCHANGED <<tasks, settings, last_failure_time, healthy, counters,
                 comp_connected, backend_connected, calls, now, mvars, rvars>>
CompForcePrimary ==
  /\ IF strategy = "circuit_breaker"
     THEN /\ circuit_state' = "closed"
          /\ failure_count' = 0
          /\ consec' = 0
          /\ forced' = FALSE
     ELSE UNCHANGED <<circuit_state, failure_count, consec, forced>>
  /\ cres' = NoResult
  /\ UNCHANGED <<tasks, settings, last_failure_time, healthy, counters,
                 comp_connected, backend_connected, calls, now, mvars, rvars>>

\* force_switch_to_fallback()
CompForceFallback ==
  /\ IF strategy = "circuit_breaker"
     THEN circuit_state' = "open" /\ forced' = TRUE
     ELSE UNCHANGED <<circuit_state, forced>>
  /\ cres' = NoResult
  /\ UNCHANGED <<tasks, settings, failure_count, last_failure_time, healthy, counters, comp_connected, backend_connected, calls,
                 consec, now, mvars, rvars>>

\* the current_backend property
CompCurrentBackend ==
  /\ circuit_state' = SelectBackend.circuit_state
  /\ cres' = [op |-> "current_backend", backend |-> SelectBackend.backend]
  /\ UNCHANGED <<tasks, forced, settings, failure_count, last_failure_time, healthy, counters, comp_connected, backend_connected, calls,
                 consec, now, mvars, rvars>>

cframe == <<strategy, failure_threshold, recovery_timeout, circuit_state,
            failure_count, last_failure_time, primary_healthy,
            fallback_healthy, primary_requests, fallback_requests,
            primary_errors, fallback_errors, comp_connected,
            backend_connected, calls, consec, forced, health_task,
            health_orphans>>

CompTick == Tick /\ cres' = NoResult /\ UNCHANGED <<mvars, cframe, rvars>>

CompNext ==
  \/ \E p_ok \in BOOLEAN, f_ok \in BOOLEAN : CompConnect(p_ok, f_ok)
  \/ \E p_raises \in BOOLEAN, f_raises \in BOOLEAN :
       CompDisconnect(p_raises, f_raises)
  \/ CompCheckBegin
  \/ \E ok \in BOOLEAN : CompFirstReturns(ok)
  \/ \E ok \in BOOLEAN : CompOtherReturns(ok)
  \/ \E p_raises \in BOOLEAN, f_raises \in BOOLEAN :
       CompHealthCheck(p_raises, f_raises)
  \/ \E p_raises \in BOOLEAN, f_raises \in BOOLEAN :
       CompOrphanHealthCheck(p_raises, f_raises)
  \/ CompForcePrimary
  \/ CompForceFallback
  \/ CompCurrentBackend
  \/ CompTick

\* ---------------------------------------------------- RedisLimiterBackend

\* math.ceil(window_ms / 1000) uses seconds of 1000 ms; the model's second
\* is scaled down to MsPerSecond clock ticks
MsPerSecond == 2

Scripts == {"sliding", "fixed"}
RedisKeys == 1..NumRedisKeys
RIdle == [pc |-> "idle"]

CeilDiv(a, b) == (a + b - 1) \div b

SetMin(S) == CHOOSE x \in S : \A y \in S : x <= y

\* the Redis server drops a key once the clock has passed its expiry time
LiveKeys(db, t) == [k \in {x \in DOMAIN db : db[x].expire >= t} |-> db[k]]

ZSet(members, expire) ==
  [type |-> "zset", members |-> members, value |-> 0, expire |-> expire]
Counter(value, expire) ==
  [type |-> "string", members |-> {}, value |-> value, expire |-> expire]

ScriptError(db) == [db |-> db, error |-> TRUE, retry |-> 0, current |-> 0]
ScriptReply(db, retry, current) ==
  [db |-> db, error |-> FALSE, retry |-> retry, current |-> current]

\* scripts.py:60  elseif current < limit
BelowLimitOrEqual(current, limit) == current <= limit
BelowLimit(current, limit) == current < limit

\* scripts.py:50-67  FIXED_WINDOW_SCRIPT run by the server at time t
FixedWindowScript(db, key, limit, window_ms, t) ==
  IF key \in DOMAIN db /\ db[key].type # "string"
  THEN ScriptError(db)
  ELSE LET current == IF key \in DOMAIN db THEN db[key].value ELSE 0
       IN IF current = 0
          THEN ScriptReply(SetKey(db, key, Counter(1, t + window_ms)), 0, 1)
          ELSE IF BelowLimit(current, limit)
          THEN ScriptReply(
                 SetKey(db, key, Counter(current + 1, db[key].expire)),
                 0, current + 1)
          ELSE ScriptReply(db, db[key].expire - t, current)

\* scripts.py:75  ZREMRANGEBYSCORE key 0 (now - window_ms)
ZRemRangeByScore(members, lo, hi) == {m \in members : ~(lo <= m /\ m <= hi)}

\* scripts.py:80  ZADD key now now: the member is the timestamp itself
ZAddCounted(members, now_ms, n) == members \cup {now_ms * 10 + n}
ZAdd(members, now_ms, n) == members \cup {now_ms}

\* scripts.py:69-92  SLIDING_WINDOW_SCRIPT run by the server at time t with
\* ARGV[3] = now_ms (0 when the caller sent no third argument)
SlidingWindowScript(db, key, limit, window_ms, now_ms, t) ==
  IF now_ms = 0 \/ (key \in DOMAIN db /\ db[key].type # "zset")
  THEN ScriptError(db)
  ELSE LET stored == IF key \in DOMAIN db THEN db[key].members ELSE {}
           kept == ZRemRangeByScore(stored, 0, now_ms - window_ms)
           pruned == IF kept = {} THEN DropKeys(db, {key})
                     ELSE IF key \in DOMAIN db
                     THEN SetKey(db, key, ZSet(kept, db[key].expire))
                     ELSE db
           current == Cardinality(kept)
       IN IF BelowLimit(current, limit)
          THEN ScriptReply(
                 SetKey(db, key,
                        ZSet(ZAdd(kept, now_ms, current),
                             t + CeilDiv(window_ms, MsPerSecond) * MsPerSecond)),
                 0, current + 1)
          ELSE IF kept # {}
          THEN ScriptReply(pruned, SetMin(kept) + window_ms - now_ms, current)
          ELSE ScriptReply(pruned, window_ms, current)

\* the script named by the sha, run atomically by the server
RunScript(sha, db, key, config, now_ms, t) ==
  IF sha = "sliding"
  THEN SlidingWindowScript(db, key, config.times, config.window, now_ms, t)
  ELSE FixedWindowScript(db, key, config.times, config.window, t)

\* redis.py:91  if retry_after_ms > 0
IsExceededOrZero(retry_after_ms) == retry_after_ms >= 0
IsExceeded(retry_after_ms) == retry_after_ms > 0

\* redis.py:89-105  the RateLimitResult built from the script's reply
RedisResult(config, retry_after_ms, current) ==
  IF IsExceeded(retry_after_ms)
  THEN [outcome |-> "exceeded", retry_after_ms |-> retry_after_ms,
        has_remaining |-> TRUE, remaining |-> config.times - current]
  ELSE [outcome |-> "allowed", retry_after_ms |-> 0,
        has_remaining |-> TRUE, remaining |-> config.times - current]

\* History of the script replies on `key` since the key was created.  The
\* run is `pure` while every request ran the same script with the same
\* policy and, for the sliding window, carried a timestamp less than one
\* window after the first one; n counts the replies and ok those that the
\* backend turned into a not-exceeded outcome.
NextRun(run, db, key, sha, config, now_ms, outcome) ==
  LET allowed == IF outcome = "allowed" THEN 1 ELSE 0
  IN IF key \notin DOMAIN db \/ key \notin DOMAIN run
     THEN SetKey(run, key,
            [pure |-> TRUE, sha |-> sha, config |-> config, first |-> now_ms,
             n |-> 1, ok |-> allowed])
     ELSE IF /\ run[key].pure
             /\ run[key].sha = sha
             /\ run[key].config = config
             /\ now_ms >= run[key].first
             /\ sha = "sliding" => now_ms - run[key].first < config.window
     THEN SetKey(run, key,
            [run[key] EXCEPT !.n = @ + 1, !.ok = @ + allowed])
     ELSE SetKey(run, key, ImpureRun)

RedisInit ==
  /\ redis_client = "unset"
  /\ script_sha = "unset"
  /\ lua_script = "unset"
  /\ r_fallback_mode = NoMode
  /\ rdb = <<>>
  /\ rcall = RIdle
  /\ rres = NoResult
  /\ rcount = 0
  /\ rrun = <<>>

\* connect(config): load_ok tells whether script_load succeeded
RedisConnect(script, mode, load_ok) ==
  /\ redis_client' = "client"
  /\ r_fallback_mode' = mode
  /\ lua_script' = script
  /\ script_sha' = IF load_ok THEN script ELSE script_sha
  /\ rres' = NoResult
  /\ UNCHANGED <<rdb, rcall, rcount, rrun, now, mvars, cvars>>

\* disconnect(): aclose_ok tells whether the client's aclose() returned
RedisDisconnect(aclose_ok) ==
  /\ IF redis_client = "unset" \/ (redis_client = "client" /\ ~aclose_ok)
     THEN UNCHANGED <<redis_client, script_sha>>
     ELSE redis_client' = "none" /\ script_sha' = "none"
  /\ rres' = NoResult
  /\ UNCHANGED <<lua_script, r_fallback_mode, rdb, rcall, rcount, rrun, now,
                 mvars, cvars>>

\* check_limit(key, config) up to the await of evalsha; the lua_script,
\* redis and script_sha properties raise when their field is not set
RedisCheckBegin(key, config) ==
  /\ rcall.pc = "idle"
  /\ rcount < MaxChecks
  /\ rcount' = rcount + 1
  /\ IF lua_script = "unset" \/ redis_client # "client"
        \/ script_sha \in {"unset", "none"}
     THEN /\ rres' = [op |-> "check", kind |-> "notconnected", key |-> key,
                      config |-> config, outcome |-> "error"]
          /\ UNCHANGED rcall
     ELSE /\ rcall' = [pc |-> "evalsha", key |-> key, config |-> config,
                       sha |-> script_sha,
                       now_ms |-> IF lua_script = "sliding" THEN now ELSE 0]
          /\ rres' = NoResult
  /\ UNCHANGED <<redis_client, script_sha, lua_script, r_fallback_mode, rdb,
                 rrun, now, mvars, cvars>>

\* the evalsha reply arrives: store_error tells whether the client raised a
\* ConnectionError instead (the server then never ran the script)
RedisCheckReturns(store_error) ==
  /\ rcall.pc = "evalsha"
  /\ rcall' = RIdle
  /\ LET ran == RunScript(rcall.sha, rdb, rcall.key, rcall.config,
                          rcall.now_ms, now)
     IN IF store_error \/ ran.error
        THEN LET r == HandleFallback(r_fallback_mode, rcall.config)
             IN /\ rres' = [op |-> "check", kind |-> "fallback",
                            key |-> rcall.key, config |-> rcall.config,
                            outcome |-> r.outcome,
                            retry_after_ms |-> r.retry_after_ms,
                            has_remaining |-> FALSE, remaining |-> 0]
                /\ UNCHANGED <<rdb, rrun>>
        ELSE LET r == RedisResult(rcall.config, ran.retry, ran.current)
             IN /\ rres' = [op |-> "check", kind |-> "script",
                            key |-> rcall.key, config |-> rcall.config,
                            sha |-> rcall.sha,
                            raw_retry |-> ran.retry, raw_current |-> ran.current,
                            outcome |-> r.outcome,
                            retry_after_ms |-> r.retry_after_ms,
                            has_remaining |-> r.has_remaining,
                            remaining |-> r.remaining]
                /\ rdb' = ran.db
                /\ rrun' = NextRun(rrun, rdb, rcall.key, rcall.sha,
                                   rcall.config,
                                   IF rcall.sha = "sliding" THEN rcall.now_ms
                                   ELSE now,
                                   r.outcome)
  /\ UNCHANGED <<redis_client, script_sha, lua_script, r_fallback_mode, rcount,
                 now, mvars, cvars>>

\* the clock advances and the server expires keys
RedisTick ==
  /\ Tick
  /\ rdb' = LiveKeys(rdb, now')
  /\ rrun' = [k \in DOMAIN rrun \cap DOMAIN rdb' |-> rrun[k]]
  /\ rres' = NoResult
  /\ UNCHANGED <<redis_client, script_sha, lua_script, r_fallback_mode, rcall,
                 rcount, mvars, cvars>>

RedisNext ==
  \/ \E sc \in Scripts, m \in FallbackModes, load_ok \in BOOLEAN :
       RedisConnect(sc, m, load_ok)
  \/ \E aclose_ok \in BOOLEAN : RedisDisconnect(aclose_ok)
  \/ \E k \in RedisKeys, p \in Policies : RedisCheckBegin(k, p)
  \/ \E store_error \in BOOLEAN : RedisCheckReturns(store_error)
  \/ RedisTick

\* a Redis backend that is constructed and never used
RedisParked == RedisInit

\* a composite that is constructed and never used
CompParked ==
  /\ CompInit
  /\ strategy = "circuit_breaker"
  /\ failure_threshold = 1
  /\ recovery_timeout = 1

\* an in-memory backend that is constructed and never used
MemParked == MemInit /\ max_keys = 1

vars == <<now, mvars, cvars, rvars>>

MemSpecInit == now = 1 /\ MemInit /\ CompParked /\ RedisParked
MemSpec == MemSpecInit /\ [][MemNext]_vars

CompSpecInit == now = 1 /\ CompInit /\ MemParked /\ RedisParked
CompSpec == CompSpecInit /\ [][CompNext]_vars

\* A circuit-breaker composite used by two tasks at once.
CompConcInit == CompSpecInit /\ strategy = "circuit_breaker"
CompConcNext ==
  \/ \E p_ok \in BOOLEAN, f_ok \in BOOLEAN : CompConnect(p_ok, f_ok)
  \/ ConcCheckBegin
  \/ \E ok \in BOOLEAN : CompFirstReturns(ok)
  \/ \E ok \in BOOLEAN : CompOtherReturns(ok)
  \/ CompCheckBegin2
  \/ \E ok \in BOOLEAN : CompFirstReturns2(ok)
  \/ \E ok \in BOOLEAN : CompOtherReturns2(ok)
  \/ CompTick
CompConcSpec == CompConcInit /\ [][CompConcNext]_vars

RedisSpecInit == now = 1 /\ RedisInit /\ MemParked /\ CompParked
RedisSpec == RedisSpecInit /\ [][RedisNext]_vars

\* ===================================================== in-memory claims

LastWindowCheck ==
  /\ mres.op = "check"
  /\ mres.kind = "window"
  /\ mres.key \in DOMAIN seqInfo
  /\ seqInfo[mres.key].pure

\* C1: in a run of checks on one key with one policy, all made less than
\* one window after the first, the Nth check is not exceeded whenever
\* N <= allowedCount and the (allowedCount+1)th check is exceeded.
C1_NthCheckWithinWindow ==
  LastWindowCheck =>
    LET run == seqInfo[mres.key]
    IN /\ run.n <= run.config.times => mres.outcome = "allowed"
       /\ run.n = run.config.times + 1 => mres.outcome = "exceeded"

C1_Witness ==
  /\ LastWindowCheck
  /\ seqInfo[mres.key].config.times = MaxTimes
  /\ seqInfo[mres.key].n = MaxTimes + 1
  /\ mres.outcome = "exceeded"

\* C2: whatever the order in which N checks on one key with one policy run
\* within one window, and whatever else runs between them, exactly
\* min(N, allowedCount) of them are not exceeded.
C2_ExactlyMinAllowed ==
  \A k \in DOMAIN seqInfo :
    seqInfo[k].pure => seqInfo[k].ok = Min2(seqInfo[k].n, seqInfo[k].config.times)

C2_Witness ==
  \E k \in DOMAIN seqInfo :
    /\ seqInfo[k].pure
    /\ seqInfo[k].n = MaxTimes + 1
    /\ seqInfo[k].config.times = MaxTimes
    /\ seqInfo[k].ok = MaxTimes
    /\ Cardinality(DOMAIN store) = 2

\* C9: while the in-memory backend is connected, the number of distinct
\* stored keys is at most maxKeys.
C9_StoredKeysAtMostMaxKeys ==
  mem_connected => Cardinality(DOMAIN store) <= max_keys

\* the sliding-window rule written from the specification: the number of
\* stored timestamps younger than the window decides the outcome
InWindowCount(timestamps, config, now_ms) ==
  Cardinality({i \in 1..Len(timestamps) :
                 timestamps[i] > now_ms - config.window * TicksPerMs})

FollowsSlidingRule(key, config) ==
  LET cnt == InWindowCount(store[key], config, now)
  IN /\ mres'.kind = "window"
     /\ mres'.outcome = (IF cnt < config.times THEN "allowed" ELSE "exceeded")
     /\ cnt < config.times =>
           /\ mres'.remaining = config.times - cnt - 1
           /\ Len(store'[key]) = cnt + 1
           /\ store'[key][cnt + 1] = now
     /\ cnt >= config.times => Len(store'[key]) = cnt

FollowsFallbackPolicy ==
  /\ mres'.kind = "guard"
  /\ store' = store
  /\ fallback_mode = "allow" =>
        mres'.outcome = "allowed" /\ mres'.retry_after_ms = 0
  /\ fallback_mode = "deny" =>
        mres'.outcome = "exceeded" /\ mres'.retry_after_ms = DenyRetryAfterMs
  /\ fallback_mode = "raise" => mres'.outcome = "error"

CircuitBreaker == strategy = "circuit_breaker"

\* the check routed to `backend` by the selection returns / raises
FirstSucceeds(backend) ==
  call.pc = "first" /\ call.backend = backend /\ CompFirstReturns(TRUE)
FirstFails(backend) ==
  call.pc = "first" /\ call.backend = backend /\ CompFirstReturns(FALSE)

CheckStep ==
  \/ CompCheckBegin
  \/ \E ok \in BOOLEAN : CompFirstReturns(ok)
  \/ \E ok \in BOOLEAN : CompOtherReturns(ok)

\* a selection and the backend it picked
Selection == (CompCheckBegin /\ comp_connected) \/ CompCurrentBackend
Routed(backend) ==
  \/ CompCheckBegin /\ comp_connected /\ call'.backend = backend
  \/ CompCurrentBackend /\ cres'.backend = backend

C3_ClosedCounts ==
  (CircuitBreaker /\ circuit_state = "closed") =>
    failure_count = consec /\ consec < failure_threshold

C3_Step ==
  (CircuitBreaker /\ circuit_state = "closed") =>
    /\ FirstFails("primary") =>
         circuit_state' =
           (IF consec + 1 = failure_threshold THEN "open" ELSE "closed")
    /\ FirstSucceeds("primary") =>
         circuit_state' = "closed" /\ failure_count' = 0
    /\ (CheckStep /\ ~FirstFails("primary")) => circuit_state' = "closed"

C4_OpenSelection ==
  [][(CircuitBreaker /\ circuit_state = "open" /\ Selection) =>
       IF last_failure_time # 0 /\ now - last_failure_time >= recovery_timeout
       THEN circuit_state' = "half_open" /\ Routed("primary")
       ELSE circuit_state' = "open" /\ Routed("fallback")]_vars

C4_Witness ==
  /\ CircuitBreaker
  /\ circuit_state = "half_open"
  /\ call.pc = "first"
  /\ call.backend = "primary"
  /\ recovery_timeout = 2
  /\ now - last_failure_time = 2
  /\ primary_errors = 1

\* C5: while the circuit is HalfOpen a selection routes to the primary; a
\* success of that primary check moves the circuit to Closed with the
\* failure counter at 0, a failure moves it back to Open.
C5_HalfOpen ==
  [][circuit_state = "half_open" =>
       /\ Selection => (Routed("primary") /\ circuit_state' = "half_open")
       /\ FirstSucceeds("primary") =>
            (circuit_state' = "closed" /\ failure_count' = 0)
       /\ FirstFails("primary") => circuit_state' = "open"]_vars

C5_Witness ==
  /\ CircuitBreaker
  /\ circuit_state = "closed"
  /\ failure_count = 0
  /\ primary_errors = 1
  /\ failure_threshold = 1
  /\ last_failure_time # 0
  /\ now - last_failure_time >= recovery_timeout
  /\ cres.op = "check"
  /\ cres.outcome = "result"
  /\ cres.served_by = "primary"

FallbackResult ==
  \E ok \in BOOLEAN :
    \/ call.pc = "first" /\ call.backend = "fallback" /\ CompFirstReturns(ok)
    \/ call.pc = "other" /\ call.backend = "primary" /\ CompOtherReturns(ok)

\* C6: a success or failure of the fallback never changes the circuit state
\* or the failure counter, and never changes what any later selection does,
\* in particular the moment at which Open->HalfOpen occurs.
C6_FallbackNeverDrives ==
  [][(CircuitBreaker /\ FallbackResult) =>
       /\ circuit_state' = circuit_state
       /\ failure_count' = failure_count
       /\ \A t \in now..(MaxTime + MaxRecovery) :
            SelectCircuitBreaker(circuit_state', last_failure_time', t,
                                 recovery_timeout)
            = SelectCircuitBreaker(circuit_state, last_failure_time, t,
                                   recovery_timeout)]_vars

\* C7: under FailFast and HealthCheck the circuit state stays at its
\* initial Closed value across every operation.
C7_NonBreakerStaysClosed ==
  ~CircuitBreaker => circuit_state = "closed"

\* C8: when the selected backend's check fails, the other backend's check
\* is invoked iff the other backend reports connected; its result is
\* returned if it succeeds, both-backends-failed is raised if it fails too,
\* and single-backend-failed is raised without invoking it if it was not
\* connected.
C8_Failover ==
  [][/\ \A b \in Backends :
          FirstFails(b) =>
            IF backend_connected[Other(b)]
            THEN call'.pc = "other" /\ call'.backend = b
            ELSE /\ call' = Idle
                 /\ cres'.op = "check"
                 /\ cres'.outcome = "single_failed"
                 /\ cres'.first = b
     /\ (call.pc = "other" /\ CompOtherReturns(TRUE)) =>
          /\ cres'.outcome = "result"
          /\ cres'.served_by = Other(call.backend)
          /\ call' = Idle
     /\ (call.pc = "other" /\ CompOtherReturns(FALSE)) =>
          /\ cres'.outcome = "both_failed"
          /\ call' = Idle
     /\ call'.pc = "other" =>
          \E b \in Backends : FirstFails(b) \/ call.pc = "other"]_vars

C8_Witness ==
  /\ cres.op = "check"
  /\ cres.outcome = "both_failed"
  /\ cres.first = "fallback"
  /\ primary_errors = 0
  /\ fallback_errors = 1

\* ============================================ in-memory claims, continued

\* the result invariant of the specification, for a returned outcome
OutcomeWellFormed(r, remaining_absent) ==
  /\ r.outcome = "exceeded" =>
       /\ r.retry_after_ms > 0
       /\ remaining_absent \/ r.remaining = 0
  /\ r.outcome = "allowed" => r.retry_after_ms = 0

\* C11: every outcome a check returns satisfies: exceeded implies
\* retryAfterMillis > 0 and remainingCount 0 or absent; not exceeded implies
\* retryAfterMillis = 0.
C11_OutcomeInvariant ==
  /\ mres.op = "check" => OutcomeWellFormed(mres, mres.remaining = 0 - 1)
  /\ (rres.op = "check" /\ rres.outcome # "error") =>
       OutcomeWellFormed(rres, ~rres.has_remaining)

\* C13: in a run of checks on one key within one window the remaining count
\* of an allowed check is allowedCount minus the number of checks allowed so
\* far (one less with each allowed check), and an allowed check reports
\* remaining 0 exactly when the next check on the key would be exceeded.
C13_RemainingCountsDown ==
  [][(mres'.op = "check" /\ mres'.kind = "window"
        /\ mres'.outcome = "allowed") =>
       \A p \in Policies :
         MemCheck(mres'.key, p) =>
           LET k == mres'.key
           IN /\ seqInfo'[k].pure =>
                   mres'.remaining = p.times - seqInfo'[k].ok
              /\ mres'.remaining = 0
                   <=> InWindowCount(store'[k], p, now) >= p.times]_vars

C13_Witness ==
  /\ LastWindowCheck
  /\ mres.outcome = "allowed"
  /\ mres.remaining = 0
  /\ seqInfo[mres.key].config.times = MaxTimes
  /\ seqInfo[mres.key].ok = MaxTimes

\* C14: a key that was exhausted under a policy is allowed again by a check
\* with that policy made more than windowMillis after the key's first
\* counted request.
C14_WindowRecovers ==
  [][(mres'.op = "check" /\ mem_connected) =>
       \A p \in Policies :
         LET k == mres'.key
         IN (/\ k \in DOMAIN seqInfo
             /\ seqInfo[k].pure
             /\ seqInfo[k].config = p
             /\ seqInfo[k].n > seqInfo[k].ok
             /\ now - seqInfo[k].first > p.window * TicksPerMs
             /\ MemCheck(k, p)) => mres'.outcome = "allowed"]_vars

C14_Witness ==
  /\ mres.op = "check"
  /\ mres.kind = "window"
  /\ mres.outcome = "allowed"
  /\ mres.key \in DOMAIN seqInfo
  /\ seqInfo[mres.key] = RecoveredRun
  /\ store[mres.key] = <<now>>

\* C15: a check on one key leaves the stored timestamps of every other key
\* as they were, and the outcome of a check on a stored key is decided by
\* that key's own timestamps alone.
C15_KeyIsolation ==
  [][mres'.op = "check" =>
       \A p \in Policies :
         MemCheck(mres'.key, p) =>
           /\ \A j \in Keys \ {mres'.key} :
                /\ j \in DOMAIN store <=> j \in DOMAIN store'
                /\ j \in DOMAIN store => store'[j] = store[j]
           /\ (mem_connected /\ mres'.key \in DOMAIN store) =>
                FollowsSlidingRule(mres'.key, p)]_vars

C15_Witness ==
  /\ mres.op = "check"
  /\ mres.kind = "window"
  /\ mres.outcome = "exceeded"
  /\ \E j \in DOMAIN store :
       /\ j # mres.key
       /\ Len(store[j]) = 1
       /\ Len(store[mres.key]) = 2
       /\ store[j][1] > store[mres.key][2]

\* ======================================================== Redis claims

\* the server rejects the script before it changes anything: the key holds
\* a value of the other script's type, or the sliding-window script was
\* called without its timestamp argument
ScriptRejected ==
  \/ rcall.sha = "sliding" /\ rcall.now_ms = 0
  \/ /\ rcall.key \in DOMAIN rdb
     /\ rdb[rcall.key].type # (IF rcall.sha = "sliding" THEN "zset" ELSE "string")

C16_OwnEntryPerRequest ==
  /\ (rres.op = "check" /\ rres.outcome = "allowed" /\ rres.kind = "script"
        /\ rres.sha = "sliding") =>
       /\ rres.key \in DOMAIN rdb
       /\ Cardinality(rdb[rres.key].members) = rres.raw_current
  /\ \A k \in DOMAIN rrun :
       (rrun[k].pure /\ rrun[k].sha = "sliding") =>
         rrun[k].ok = Min2(rrun[k].n, rrun[k].config.times)

\* C17: with the fixed-window script the counter of a key never exceeds
\* allowedCount and at most allowedCount requests are allowed during one
\* lifetime of the counter.
C17_FixedWindowBound ==
  \A k \in DOMAIN rrun :
    (rrun[k].pure /\ rrun[k].sha = "fixed") =>
      /\ rdb[k].value <= rrun[k].config.times
      /\ rrun[k].ok <= rrun[k].config.times

C19_ManualOverrides ==
  [][/\ CompForcePrimary =>
          IF CircuitBreaker
          THEN /\ circuit_state' = "closed"
               /\ failure_count' = 0
               /\ UNCHANGED <<last_failure_time, healthy, counters,
                              comp_connected, backend_connected, call>>
          ELSE UNCHANGED cframe
     /\ CompForceFallback =>
          IF CircuitBreaker
          THEN /\ circuit_state' = "open"
               /\ UNCHANGED <<failure_count, last_failure_time, healthy,
                              counters, comp_connected, backend_connected,
                              call>>
          ELSE UNCHANGED cframe]_vars

C19_Witness ==
  /\ CircuitBreaker
  /\ failure_threshold = 1
  /\ circuit_state = "closed"
  /\ failure_count = 0
  /\ primary_errors = MaxCount
  /\ primary_requests = 0
  /\ cres = NoResult
  /\ call = Idle

\* C20: under the CircuitBreaker strategy, from force_switch_to_fallback()
\* until force_switch_to_primary() is called every selection routes to the
\* fallback, whatever failures were recorded before; once
\* force_switch_to_primary() has closed the circuit, selections route to the
\* primary.
C20_MaintenanceWindow ==
  [][/\ (CircuitBreaker /\ forced /\ Selection) => Routed("fallback")
     /\ (CircuitBreaker /\ CompForcePrimary) =>
          SelectCircuitBreaker(circuit_state', last_failure_time', now,
                               recovery_timeout).backend = "primary"]_vars

\* ------------------------------------------------- lifecycle of the composite

\* C21: connect() of the composite calls connect() on both backends whether
\* or not the primary's call failed, raises exactly when both calls failed,
\* and in every other case leaves the composite connected.
C21_ConnectAttemptsBoth ==
  cres.op = "connect" =>
    /\ cres.attempted = {"primary", "fallback"}
    /\ cres.fallback_connected => backend_connected.fallback
    /\ cres.raised <=> (~cres.primary_connected /\ ~cres.fallback_connected)
    /\ ~cres.raised => comp_connected

\* the primary's connect failed, the fallback's succeeded and connect()
\* returned on a composite that was not connected before
C21_Witness ==
  /\ cres.op = "connect"
  /\ ~cres.primary_connected
  /\ cres.fallback_connected
  /\ ~backend_connected.primary
  /\ ~cres.raised
  /\ comp_connected

C22_MemoryNotConnectedCheck ==
  [][(~mem_connected /\ \E k \in Keys, p \in Policies : MemCheck(k, p)) =>
       /\ mres'.kind = "notconnected"
       /\ mres'.outcome = "error"
       /\ UNCHANGED <<store, mem_connected, max_keys, fallback_mode,
                      cleanup_task>>]_vars

\* C23: whenever the composite is not connected (before the first connect or
\* after a disconnect() has returned) no health-check task it started is
\* alive, so none runs before the next connect.
C23_NoTaskAfterDisconnect ==
  ~comp_connected => (health_task # "alive" /\ health_orphans = 0)

C25_DisconnectedIsEmpty ==
  /\ ~mem_connected => store = <<>>
  /\ mres.op = "disconnect" => (~mem_connected /\ store = <<>>)

C26_SweepLoopSurvivesFailure ==
  /\ [](mem_connected => cleanup_task = "alive")
  /\ [][(cleanup_task = "alive" /\ cleanup_task' # "alive") =>
          MemDisconnectBegin]_vars

\* ------------------------------------------------------- the sweep pass

\* a timestamp younger than the retention horizon
Younger(ts, now_ms) == now_ms - ts < CleanupWindowMs

Returned(backend) ==
  /\ call.pc # "idle"
  /\ call'.pc = "idle"
  /\ cres'.op = "check"
  /\ cres'.outcome = "result"
  /\ cres'.served_by = backend

\* the backend selected first for a check_limit call, `backend`, fails
FirstFailed(backend) ==
  /\ call.pc = "first"
  /\ call.backend = backend
  /\ \/ call'.pc = "other"
     \/ cres'.op = "check" /\ cres'.outcome = "single_failed"

\* C28: the statistics start at 0 and every step adds 1 to a backend's
\* request counter exactly when a check returns an outcome produced by that
\* backend and 1 to a backend's error counter exactly when that backend was
\* selected first for a check and failed; so the sums count those checks
\* and no counter decreases.
C28_Statistics ==
  /\ (primary_requests + fallback_requests + primary_errors
        + fallback_errors = 0)
  /\ [][/\ primary_requests' =
             primary_requests + (IF Returned("primary") THEN 1 ELSE 0)
        /\ fallback_requests' =
             fallback_requests + (IF Returned("fallback") THEN 1 ELSE 0)
        /\ primary_errors' =
             primary_errors + (IF FirstFailed("primary") THEN 1 ELSE 0)
        /\ fallback_errors' =
             fallback_errors + (IF FirstFailed("fallback") THEN 1 ELSE 0)
       ]_vars

\* the primary failed and the fallback served the same check
C28_Witness ==
  /\ cres.op = "check"
  /\ cres.outcome = "result"
  /\ cres.first = "primary"
  /\ cres.served_by = "fallback"
  /\ primary_errors = 1
  /\ fallback_requests = 1
  /\ primary_requests = 0
  /\ fallback_errors = 0

\* ------------------------------------- selection without a circuit breaker

\* a backend that may be selected under fail_fast / health_check
Eligible(backend) ==
  /\ backend_connected[backend]
  /\ strategy = "health_check" =>
       IF backend = "primary" THEN primary_healthy ELSE fallback_healthy

ExpectedBackend ==
  IF Eligible("primary") THEN "primary"
  ELSE IF Eligible("fallback") THEN "fallback"
  ELSE "primary"

\* C29: under fail_fast and health_check every selection picks the primary
\* if it is eligible, else the fallback if it is eligible, else the primary,
\* and changes no field of the composite.
C29_SelectionIsPure ==
  [][(strategy # "circuit_breaker" /\ Selection) =>
       /\ Routed(ExpectedBackend)
       /\ UNCHANGED <<settings, circuit_state, failure_count,
                      last_failure_time, healthy, counters, comp_connected,
                      backend_connected, tasks>>]_vars

\* health_check selected the fallback because the connected primary is
\* marked unhealthy
C29_Witness ==
  /\ cres.op = "current_backend"
  /\ strategy = "health_check"
  /\ cres.backend = "fallback"
  /\ backend_connected.primary
  /\ ~primary_healthy
  /\ backend_connected.fallback
  /\ fallback_healthy

\* ------------------------------------------- locks held when writing

\* the writes to the store made by the operation that just completed
Mutations ==
  IF mres.op \in {"check", "sweep", "clear_key", "clear_all", "disconnect"}
  THEN mres.mutations ELSE {}

\* C30 as stated: every write to the store is made holding exactly one lock,
\* the lock of the written key or the global lock.
C30_ExactlyOneLock ==
  \A m \in Mutations :
    m.locks = {KeyLock(m.key)} \/ m.locks = {GlobalLock}

\* C30: every write to the store is made holding the lock of the written
\* key, the global lock, or both; both only in a sweep pass, and never the
\* lock of another key.
C30_LockedMutations ==
  \A m \in Mutations :
    /\ m.locks \in {{KeyLock(m.key)}, {GlobalLock},
                     {GlobalLock, KeyLock(m.key)}}
    /\ m.locks = {GlobalLock, KeyLock(m.key)} => mres.op = "sweep"

\* a sweep pass pruned one key under both locks and deleted another under
\* the global lock
C30_Witness ==
  /\ mres.op = "sweep"
  /\ \E m \in mres.mutations : m.locks = {GlobalLock, KeyLock(m.key)}
  /\ \E m \in mres.mutations : m.locks = {GlobalLock}

\* ------------------------------------------ locks and suspension points

AtOrBeforeWindowStart(timestamps, config, now_ms) ==
  {ts \in {timestamps[i] : i \in 1..Len(timestamps)} :
     ts <= now_ms - TotalMilliseconds(config)}
BeforeWindowStart(timestamps, config, now_ms) ==
  AtOrBeforeWindowStart(timestamps, config, now_ms)
    \ {now_ms - TotalMilliseconds(config)}

\* C32 (as stated): a sliding-window check discards exactly the entries
\* strictly older than now - windowMillis, so that an entry recorded exactly
\* windowMillis before the check is kept and counted.
C32_BoundaryEntryCounted ==
  [][(mres'.op = "check" /\ mres'.kind = "window"
        /\ mres'.key \in DOMAIN store) =>
       \A p \in Policies :
         LET k == mres'.key
         IN \/ mres'.discarded = BeforeWindowStart(store[k], p, now)
            \/ ~MemCheck(k, p)]_vars

\* C32 (amended): a sliding-window check discards exactly the entries
\* recorded windowMillis or more before it and keeps, in order, those
\* recorded less than windowMillis before it; an entry recorded exactly
\* windowMillis before the check is discarded and not counted.
C32_PruneBoundary ==
  [][(mres'.op = "check" /\ mres'.kind = "window"
        /\ mres'.key \in DOMAIN store) =>
       \A p \in Policies :
         LET k == mres'.key
         IN \/ /\ mres'.discarded = AtOrBeforeWindowStart(store[k], p, now)
               /\ \A i \in 1..Len(store'[k]) :
                    store'[k][i] > now - TotalMilliseconds(p)
               /\ (store[k] = <<now - TotalMilliseconds(p)>>) =>
                    /\ mres'.outcome = "allowed"
                    /\ store'[k] = <<now>>
            \/ ~MemCheck(k, p)]_vars

\* a check with the shortest window found an entry exactly one window old,
\* dropped it and admitted the request it would otherwise have refused
ShortestWindow == [times |-> 1, window |-> 1]
C32_Witness ==
  /\ mres.op = "check"
  /\ mres.kind = "window"
  /\ mres.outcome = "allowed"
  /\ mres.discarded = {now - TotalMilliseconds(ShortestWindow)}
  /\ store[mres.key] = <<now>>

\* ---------------------------------------------------------------- C33
\* the outcome a check with `config` on `timestamps` would have at time at_ms
OutcomeAt(timestamps, config, at_ms) ==
  SlidingWindowCheck(timestamps, config, at_ms).result.outcome

\* C33: when an in-memory check is exceeded with retryAfterMillis = r and no
\* other check touches the key, a check made r milliseconds later is allowed
\* and every check made earlier than that is still exceeded.
C33_RetryAfterExact ==
  [][(mres'.op = "check" /\ mres'.kind = "window"
        /\ mres'.outcome = "exceeded") =>
       \A p \in Policies :
         LET k == mres'.key
             retry_at == now + mres'.retry_after_ms * TicksPerMs
         IN \/ /\ OutcomeAt(store'[k], p, retry_at) = "allowed"
               /\ \A t \in now..(retry_at - 1) :
                    OutcomeAt(store'[k], p, t) = "exceeded"
            \/ ~MemCheck(k, p)]_vars

\* ---------------------------------------------------------------- C34
\* C34: the sweep is transparent: for every key and every policy, windows
\* longer than the retention horizon included, the sliding-window result of
\* a check is the same after a sweep pass as it would have been without it.
C34_SweepTransparent ==
  [][MemSweep(FALSE) =>
       \A k \in Keys, p \in Policies :
         SlidingWindowCheck(StoredTimestamps(store', k), p, now).result
           = SlidingWindowCheck(StoredTimestamps(store, k), p, now).result]_vars

\* ---------------------------------------------------------------- C35
\* the timestamps of `key` that lie inside the retention horizon
InsideHorizon(st, key) ==
  {ts \in {st[key][i] : i \in 1..Len(st[key])} : ts > now - CleanupWindowMs}
TimestampsOf(st, key) ==
  IF key \in DOMAIN st THEN {st[key][i] : i \in 1..Len(st[key])} ELSE {}

\* C35: no timestamp inside the retention horizon is lost to the sweep: a
\* step that completes a sweep pass removes from no key a timestamp inside
\* the horizon, and a key it deletes held none at that moment.
C35_SweepLosesNothingRecent ==
  [][mres'.op = "sweep" =>
       \A k \in DOMAIN store :
         /\ InsideHorizon(store, k) \subseteq TimestampsOf(store', k)
         /\ k \notin DOMAIN store' => InsideHorizon(store, k) = {}]_vars

\* a check was allowed and recorded `now`; the sweep pass that ran next, at
\* the same instant, deleted another key and kept that timestamp
C35_Witness ==
  /\ mres.op = "sweep"
  /\ ~mres.failed
  /\ \E m \in mres.mutations : m.locks = SweepDeleteLocks
  /\ \E k \in DOMAIN store : store[k][Len(store[k])] = now

\* ---------------------------------------------------------------- C36
\* C36: reading current_backend is a pure observation: under every strategy
\* and in every circuit state it changes nothing of the composite's state.
C36_CurrentBackendIsPure ==
  [][CompCurrentBackend => UNCHANGED cframe]_vars

\* ---------------------------------------------------------------- C37
\* C37: an Open circuit recovers by itself, however it came to be Open.  A
\* check is routed to the primary from Open only when the time of the last
\* failure is set and the recovery timeout has passed since, so recovery
\* needs: whenever the circuit is Open the time of the last failure is set.
C37_OpenCircuitCanRecover ==
  (CircuitBreaker /\ comp_connected /\ circuit_state = "open") =>
    last_failure_time # 0

\* an Open circuit without a failure time stays so through every selection,
\* every successful check and every passage of time
C37_OpenForever ==
  [][(/\ CircuitBreaker
      /\ circuit_state = "open"
      /\ last_failure_time = 0
      /\ \/ CompCheckBegin
         \/ CompFirstReturns(TRUE)
         \/ CompCurrentBackend
         \/ CompTick) =>
       /\ circuit_state' = "open"
       /\ last_failure_time' = 0
       /\ (CompCheckBegin /\ comp_connected) => call'.backend = "fallback"]_vars

\* ---------------------------------------------------------------- C40
\* C40: with failureThreshold >= 1 under the circuit-breaker strategy, the
\* failure counter is below failureThreshold whenever the circuit is Closed.
C40_ClosedBelowThreshold ==
  (CircuitBreaker /\ failure_threshold >= 1 /\ circuit_state = "closed") =>
    failure_count < failure_threshold

\* a Closed circuit one primary failure away from opening
C40_Witness ==
  /\ CircuitBreaker
  /\ circuit_state = "closed"
  /\ failure_threshold = MaxThreshold
  /\ failure_count = MaxThreshold - 1
  /\ cres.op = "check"
  /\ cres.first = "primary"
  /\ cres.served_by = "fallback"

\* ---------------------------------------------------------------- C38
\* the primary answers a call that was routed to it while the circuit was
\* Closed, i.e. a call that is not a trial request
LateResult(c, c_next) ==
  /\ c.pc = "first"
  /\ c.backend = "primary"
  /\ ~c.trial
  /\ c_next # c

\* C38: with checks in flight concurrently, only the result of a trial
\* request moves the circuit out of HalfOpen: the late result of a primary
\* check selected before the circuit opened leaves a HalfOpen circuit
\* HalfOpen, whether it succeeded or failed.
C38_OnlyTrialLeavesHalfOpen ==
  [][(/\ circuit_state = "half_open"
      /\ \/ LateResult(call, call')
         \/ LateResult(call2, call2')) =>
       circuit_state' = "half_open"]_vars

\* closing the circuit on a late success and re-opening it on a late failure
C38_LateSuccessDoesNotClose ==
  [][(/\ circuit_state = "half_open"
      /\ \/ LateResult(call, call')
         \/ LateResult(call2, call2')) =>
       circuit_state' # "closed"]_vars
C38_LateFailureDoesNotReopen ==
  [][(/\ circuit_state = "half_open"
      /\ \/ LateResult(call, call')
         \/ LateResult(call2, call2')) =>
       circuit_state' # "open"]_vars

====
